---------------------------- MODULE Spec2Model ----------------------------
(***************************************************************************)
(* A model of the poker-stat-dashboard core: the PokerNow log parser       *)
(* (src/app/parsers/poker_now_parser.py) and the prize calculator          *)
(* (src/app/prize_calculator.py).                                          *)
(*                                                                         *)
(* A CSV row is a record [cols, entry, timestamp, order].  The free text   *)
(* of an entry is modelled by what the parser's regular expressions can    *)
(* find in it: a record with a kind and the captured groups.  A timestamp  *)
(* string is [fmt |-> "iso", t |-> n] (an ISO-8601 string, trailing Z or   *)
(* not, that datetime.fromisoformat accepts and that denotes instant n),   *)
(* [fmt |-> "iso_offset", t |-> n] (the same with a UTC offset, which      *)
(* fromisoformat turns into an offset-aware datetime), [fmt |-> "bad"]     *)
(* (fromisoformat raises ValueError) or [fmt |-> "at"] (the header label). *)
(* A naive datetime is its instant, an aware one AwareDatetime(instant).   *)
(* Percentages are counted in hundredths of a percent point, so that       *)
(* round(x, 2) is a rounding to an integer.                                *)
(***************************************************************************)
EXTENDS Integers, Sequences, FiniteSets, TLC

VARIABLES
    file,               \* the rows of the log file after the header row
    pc,                 \* position of parse() / of the prize calculation
    game_data,          \* self.game_data
    sorted_game_data,   \* self.sorted_game_data
    player_names,       \* self.player_names (a set)
    player_ids,         \* self.player_ids (name -> first-seen id)
    iter_order,         \* the order in which the set player_names iterates
    game_start_time,    \* self.game_start_time
    game_end_time,      \* self.game_end_time
    total_hands,        \* self.total_hands
    hand_data,          \* self.hand_data (hand id -> hand record)
    hand_index,         \* the number of entries the loop of _process_hands has handled
    current_hand_id,    \* current_hand_id of _process_hands ("" for None)
    player_stats,       \* self.player_stats (name -> stats record)
    results,            \* the dictionary parse() returns
    players_df,         \* calculate_prize_distribution's argument
    prizes,             \* rank -> prize amount
    prize_percentages,  \* rank -> percentage, in hundredths
    total_prize_pool,   \* the prize pool
    games,              \* the rows of table games that the connection sees
    players,            \* the rows of table players
    game_players,       \* the rows of table game_players
    transaction,        \* the tables as BEGIN TRANSACTION found them, if one is open
    call,               \* caller -> the locals of its call of store_game_data
    store_calls         \* the number of calls of store_game_data so far

vars == <<file, pc, game_data, sorted_game_data, player_names, player_ids,
          iter_order, game_start_time, game_end_time, total_hands, hand_data,
          hand_index, current_hand_id, player_stats, results, players_df,
          prizes, prize_percentages, total_prize_pool, games, players,
          game_players, transaction, call, store_calls>>

parserVars == <<file, game_data, sorted_game_data, player_names, player_ids,
                iter_order, game_start_time, game_end_time, total_hands,
                hand_data, hand_index, current_hand_id, player_stats, results>>

scanVars == <<hand_index, current_hand_id>>

prizeVars == <<players_df, prizes, prize_percentages, total_prize_pool>>

tableVars == <<games, players, game_players, transaction>>

storeVars == <<games, players, game_players, transaction, call, store_calls>>

-----------------------------------------------------------------------------
(* Bounds of the model.                                                    *)

\* longest log file (rows after the header) of the ranking specification
MaxRows == 2
\* longest log file of the ordering specification
MaxSortRows == 3
\* longest log file of the rebuy-ledger specification
MaxLedgerRows == 4
\* largest number of players handed to the prize calculator
MaxPrizePlayers == 14
\* largest rebuy count of a player handed to the prize calculator
MaxRebuyCount == 3
\* longest log file of the elimination specification
MaxOutRows == 3
\* longest log file of the hand specification
MaxHandRows == 3
\* longest log file of the tied-timestamp specification
MaxTiedRows == 3
\* longest log file of the session-token specification
MaxTokenRows == 3
\* longest log file of the column specification
MaxColumnRows == 3
\* largest number of players of the large-table prize specification
MaxLargePlayers == 49
\* the number of players of the largest table handed to the prize calculator
MaxHugePlayers == 123
\* largest rebuy count of the winner at that table
MaxHugeRebuys == 79
\* most calls of store_game_data in one behaviour
MaxStoreCalls == 4

-----------------------------------------------------------------------------
(* Values of the program.                                                  *)

\* Python's None
None == -1
\* datetime.min
DatetimeMin == 0
\* datetime.max: later than every instant a log can carry
DatetimeMax == 99

\* the display names that occur in logs, and the session token of each
NameList == <<"ann", "bob", "cy">>
TokenList == <<"a1", "b1", "c1">>
Names == {NameList[i] : i \in DOMAIN NameList}
IndexOf(n) == CHOOSE i \in DOMAIN NameList : NameList[i] = n
TokenOf(n) == TokenList[IndexOf(n)]

\* config.py
INITIAL_BUYIN == 20000
ENTRY_FEE == 5000
FREE_REBUYS == 2
REBUY_FEE == 5000

-----------------------------------------------------------------------------
(* Generic helpers.                                                        *)

Abs(a) == IF a >= 0 THEN a ELSE -a
Range(s) == {s[i] : i \in DOMAIN s}
SeqsUpTo(S, n) == UNION {[1..k -> S] : k \in 0..n}
Perms(S) == {s \in [1..Cardinality(S) -> S] : \A i, j \in DOMAIN s : i # j => s[i] # s[j]}

RECURSIVE SumBetween(_, _, _)
\* f[a] + ... + f[b], by halves so that long sums stay shallow
SumBetween(f, a, b) ==
    IF a > b THEN 0
    ELSE IF a = b THEN f[a]
    ELSE SumBetween(f, a, (a + b) \div 2) + SumBetween(f, (a + b) \div 2 + 1, b)

\* f[1] + ... + f[n]
SumTo(f, n) == SumBetween(f, 1, n)

\* A stable sort of s by the keys k (k[i] is the key of s[i]): ascending by
\* key, equal keys in the order of s.  Python's sorted() and list.sort() are
\* stable.
StableSort(s, k) ==
    LET n == Len(s)
        pos(i) == 1 + Cardinality({j \in 1..n :
                        \/ k[j] < k[i]
                        \/ k[j] = k[i] /\ j < i})
    IN [r \in 1..n |-> s[CHOOSE i \in 1..n : pos(i) = r]]

\* list.sort(key=..., reverse=True): descending by key, and equal keys still
\* in the order of s (reverse=True keeps the sort stable)
StableSortReverse(s, k) == StableSort(s, [i \in DOMAIN k |-> -k[i]])

-----------------------------------------------------------------------------
(* What the regular expressions find in an entry.                          *)

\* entries that name one player as "<name> @ <id>"
OnePlayerKinds == {"join", "stands_up", "sits_back", "sits_with", "collected", "action"}

\* player_pattern.findall(entry): the (name, id) pairs, in text order
Mentions(e) ==
    CASE e.kind \in OnePlayerKinds -> <<[name |-> e.name, id |-> e.id]>>
      [] e.kind = "stacks" -> [i \in DOMAIN e.list |-> [name |-> e.list[i].name, id |-> e.list[i].id]]
      [] e.kind = "hand_start" -> e.dealer
      [] OTHER -> <<>>

\* re.search(rf'"{name} @ {id}"', entry)
MatchesNameAndId(e, n, i) ==
    \E k \in DOMAIN Mentions(e) : Mentions(e)[k].name = n /\ Mentions(e)[k].id = i

-----------------------------------------------------------------------------
(* _read_log_file and _sort_data_by_time.                                  *)

\* the dictionary _read_log_file appends for a row
RowDict(row) == [entry |-> row.entry, timestamp |-> row.timestamp, order |-> row.order]

\* the rows with at least three columns, in file order
ReadRows(f) ==
    LET keep == {i \in DOMAIN f : f[i].cols >= 3}
        nth(k) == CHOOSE i \in keep : Cardinality({j \in keep : j < i}) = k - 1
    IN [k \in 1..Cardinality(keep) |-> RowDict(f[nth(k)])]

\* the offset-aware datetime of instant t, which fromisoformat returns for a
\* string that carries a UTC offset; aware datetimes are ordered among
\* themselves, and comparing one with a naive datetime raises TypeError
AwareDatetime(t) == 1000 + t
IsAware(d) == d >= AwareDatetime(0)

\* datetime.fromisoformat(ts.rstrip('Z')), with the ValueError handler
FromIsoFormat(ts) ==
    IF ts.fmt = "iso" THEN ts.t
    ELSE IF ts.fmt = "iso_offset" THEN AwareDatetime(ts.t)
    ELSE DatetimeMin

\* the loop that adds entry['datetime']: an entry whose timestamp is the
\* header label 'at' gets no 'datetime' key
WithDatetime(g) ==
    IF g.timestamp.fmt # "at"
    THEN [entry |-> g.entry, timestamp |-> g.timestamp, order |-> g.order,
          datetime |-> FromIsoFormat(g.timestamp)]
    ELSE g

\* entry.get('datetime', default)
GetDatetime(g, default) == IF "datetime" \in DOMAIN g THEN g.datetime ELSE default

\* sorted(self.game_data, key=lambda x: x.get('datetime', datetime.min))
SortByTime(data) == StableSort(data, [i \in DOMAIN data |-> GetDatetime(data[i], DatetimeMin)])

\* sorted() raises TypeError: some comparison sets a naive key against an
\* aware one
SortRaises(data) ==
    \E i, j \in DOMAIN data :
        IsAware(GetDatetime(data[i], DatetimeMin)) # IsAware(GetDatetime(data[j], DatetimeMin))

-----------------------------------------------------------------------------
(* _extract_player_names_and_ids.                                          *)

\* every name player_pattern finds in the entries
ExtractNames(data) ==
    UNION {{Mentions(data[i].entry)[k].name : k \in DOMAIN Mentions(data[i].entry)} :
           i \in DOMAIN data}

\* the id of the first match of the name in scan order: later ids of the same
\* name do not overwrite it
FirstId(data, n) ==
    LET hits(i) == {k \in DOMAIN Mentions(data[i].entry) : Mentions(data[i].entry)[k].name = n}
        first == CHOOSE i \in DOMAIN data :
                    /\ hits(i) # {}
                    /\ \A j \in DOMAIN data : j < i => hits(j) = {}
        k0 == CHOOSE k \in hits(first) : \A k2 \in hits(first) : k <= k2
    IN Mentions(data[first].entry)[k0].id

ExtractIds(data) == [n \in ExtractNames(data) |-> FirstId(data, n)]

-----------------------------------------------------------------------------
(* _process_hands.                                                         *)

\* the scan's state before the first entry
HandScanInit == [current_hand_id |-> "", hand_data |-> <<>>, total_hands |-> 0]

\* a new hand record
NewHand(number) ==
    [number |-> number, players_involved |-> {}, winners |-> {}, pot_amounts |-> <<>>]

\* a slip: the counter follows the number of the last marker
HandStartLastNumber(st, e) ==
    IF e.kind = "hand_start"
    THEN [current_hand_id |-> e.hid,
          hand_data |-> [h \in DOMAIN st.hand_data \cup {e.hid} |->
                            IF h = e.hid THEN NewHand(e.number) ELSE st.hand_data[h]],
          total_hands |-> e.number]
    ELSE st

\* the hand-start part of one iteration of the loop
HandStart(st, e) ==
    IF e.kind = "hand_start"
    THEN [current_hand_id |-> e.hid,
          hand_data |-> [h \in DOMAIN st.hand_data \cup {e.hid} |->
                            IF h = e.hid THEN NewHand(e.number) ELSE st.hand_data[h]],
          total_hands |-> IF e.number > st.total_hands THEN e.number ELSE st.total_hands]
    ELSE st

\* the players (keys of player_ids) whose action pattern matches the entry
ActingPlayers(e, ids) == {n \in DOMAIN ids : MatchesNameAndId(e, n, ids[n])}

\* a slip: a pot collection counts under any token of the player
CollectingPlayersAnyToken(e, ids) ==
    {n \in DOMAIN ids : e.kind = "collected" /\ e.name = n}

\* the players among them for whom the entry is a pot collection
CollectingPlayers(e, ids) ==
    {n \in ActingPlayers(e, ids) : e.kind = "collected" /\ e.name = n /\ e.id = ids[n]}

\* one iteration of the loop over the sorted entries
HandStep(st, e, ids) ==
    LET s1 == HandStart(st, e)
        cur == s1.current_hand_id
    IN IF cur # "" /\ cur \in DOMAIN s1.hand_data
       THEN [s1 EXCEPT !.hand_data[cur] =
                [number |-> @.number,
                 players_involved |-> @.players_involved \cup ActingPlayers(e, ids),
                 winners |-> @.winners \cup CollectingPlayers(e, ids),
                 pot_amounts |-> IF CollectingPlayers(e, ids) # {}
                                 THEN Append(@.pot_amounts, e.amt)
                                 ELSE @.pot_amounts]]
       ELSE s1

RECURSIVE HandScan(_, _, _)
\* the scan's state after the first n entries
HandScan(data, ids, n) ==
    IF n = 0 THEN HandScanInit ELSE HandStep(HandScan(data, ids, n - 1), data[n].entry, ids)

-----------------------------------------------------------------------------
(* _calculate_rebuy_amount.                                                *)

\* the local variables before the loop
LedgerInit ==
    [total_rebuy |-> 0, first_join |-> TRUE, away_status |-> FALSE,
     initial_buyin |-> 20000, current_stack |-> 0, last_stack |-> 0,
     rebuy_count |-> 0, stack_history |-> <<>>]

\* stack_history.append((timestamp, stack, event))
Logged(st, event) ==
    [st EXCEPT !.stack_history = Append(@, [stack |-> st.current_stack, event |-> event])]

\* the entry is a sentence of this kind about the player, under any id
Names1(e, kind, n) == e.kind = kind /\ e.name = n

\* re.search(stack_update_pattern, entry): the places of a stack broadcast
\* that list the player
Listed(e, n) == {i \in DOMAIN e.list : e.list[i].name = n}
FirstListed(e, n) == e.list[CHOOSE i \in Listed(e, n) : \A j \in Listed(e, n) : i <= j].amt

\* a "Player stacks:" entry that lists the player
OnStackUpdate(st, new_stack) ==
    LET grows == /\ st.current_stack > 0
                 /\ new_stack > st.current_stack
                 /\ ~st.away_status
                 /\ new_stack - st.current_stack >= 15000
        s1 == IF grows
              THEN [st EXCEPT !.rebuy_count = @ + 1,
                              !.total_rebuy = @ + (new_stack - st.current_stack)]
              ELSE st
    IN Logged([s1 EXCEPT !.last_stack = st.current_stack, !.current_stack = new_stack],
              "Stack update")

\* a "joined the game with a stack of" entry of the player
OnJoin(st, amount) ==
    IF st.first_join
    THEN Logged([st EXCEPT !.initial_buyin = amount, !.current_stack = amount,
                           !.last_stack = amount, !.total_rebuy = amount,
                           !.first_join = FALSE], "Initial join")
    ELSE IF ~st.away_status
    THEN Logged([st EXCEPT !.rebuy_count = @ + 1, !.total_rebuy = @ + amount,
                           !.current_stack = amount, !.last_stack = amount], "New join")
    ELSE Logged([st EXCEPT !.away_status = FALSE, !.current_stack = amount,
                           !.last_stack = amount], "Return from away")

\* a "stands up" entry of the player
OnStandsUp(st) == Logged([st EXCEPT !.away_status = TRUE], "Went away")

\* a "sits back with the stack of" entry of the player
OnSitsBack(st, amount) ==
    LET s1 == IF amount > st.last_stack + 15000
              THEN [st EXCEPT !.rebuy_count = @ + 1,
                              !.total_rebuy = @ + (amount - st.last_stack)]
              ELSE st
    IN Logged([s1 EXCEPT !.away_status = FALSE, !.current_stack = amount], "Sat back")

\* a "sits with the stack of" or "stands with the stack of" entry of the player
OnDirectRebuy(st, amount) ==
    LET s1 == IF amount > st.current_stack + 15000
              THEN [st EXCEPT !.rebuy_count = @ + 1,
                              !.total_rebuy = @ + (amount - st.current_stack)]
              ELSE st
    IN [s1 EXCEPT !.current_stack = amount]

\* one iteration of the loop over the sorted entries, for player n
LedgerStep(st, e, n) ==
    CASE e.kind = "stacks" /\ Listed(e, n) # {} -> OnStackUpdate(st, FirstListed(e, n))
      [] Names1(e, "join", n) -> OnJoin(st, e.amt)
      [] Names1(e, "stands_up", n) -> OnStandsUp(st)
      [] Names1(e, "sits_back", n) -> OnSitsBack(st, e.amt)
      [] Names1(e, "sits_with", n) -> OnDirectRebuy(st, e.amt)
      [] OTHER -> st

RECURSIVE LedgerScan(_, _, _)
\* the local variables after the first k entries
LedgerScan(data, n, k) ==
    IF k = 0 THEN LedgerInit ELSE LedgerStep(LedgerScan(data, n, k - 1), data[k].entry, n)

\* exact_rebuy_count: the steps of the stack history that rise by initial_buyin
ExactRebuyCount(st) ==
    Cardinality({i \in DOMAIN st.stack_history :
        /\ i > 1
        /\ st.stack_history[i].event \in {"New join", "Sat back", "Stack update"}
        /\ Abs(st.stack_history[i].stack - st.stack_history[i - 1].stack - st.initial_buyin) < 1000})

\* the validation of the rebuy count after the loop
LedgerValidate(st) ==
    IF st.rebuy_count > 2
    THEN IF ExactRebuyCount(st) > 0 /\ ExactRebuyCount(st) < st.rebuy_count
         THEN [st EXCEPT !.rebuy_count = ExactRebuyCount(st),
                         !.total_rebuy = st.initial_buyin + ExactRebuyCount(st) * st.initial_buyin]
         ELSE [st EXCEPT !.rebuy_count = 1,
                         !.total_rebuy = st.initial_buyin + 1 * st.initial_buyin]
    ELSE st

\* the local variables when the function returns
Ledger(data, n) == LedgerValidate(LedgerScan(data, n, Len(data)))

\* the value returned
RebuyAmount(data, n) == Ledger(data, n).total_rebuy

\* the debug line that divides by initial_buyin raises ZeroDivisionError
LedgerRaises(data, n) == Ledger(data, n).initial_buyin = 0

-----------------------------------------------------------------------------
(* _calculate_player_stats, _get_out_time, _calculate_rankings.            *)

\* the snapshots a stack broadcast appends to the player's history
Snapshots(g, n) ==
    IF g.entry.kind = "stacks"
    THEN LET at == Listed(g.entry, n)
             nth(k) == CHOOSE i \in at : Cardinality({j \in at : j < i}) = k - 1
         IN [k \in 1..Cardinality(at) |->
                [time |-> GetDatetime(g, None), chips |-> g.entry.list[nth(k)].amt]]
    ELSE <<>>

RECURSIVE ChipHistory(_, _, _)
\* player_chip_history[n] after the first k entries
ChipHistory(data, n, k) ==
    IF k = 0 THEN <<>> ELSE ChipHistory(data, n, k - 1) \o Snapshots(data[k], n)

\* final_chips
FinalChips(history) == IF history # <<>> THEN history[Len(history)].chips ELSE 0

\* the entries that match rf'{name} @ {id}"' (no name of the model ends with
\* another, so the missing opening quote matches nothing more)
ActionIdx(data, n, ids) ==
    {i \in DOMAIN data : MatchesNameAndId(data[i].entry, n, ids[n])}

\* _get_out_time
OutTime(data, n, ids, history) ==
    IF history # <<>> /\ history[Len(history)].chips = 0
    THEN history[Len(history)].time
    ELSE IF n \in DOMAIN ids /\ ActionIdx(data, n, ids) # {}
    THEN GetDatetime(data[CHOOSE i \in ActionIdx(data, n, ids) :
                            \A j \in ActionIdx(data, n, ids) : j <= i], None)
    ELSE None

\* the number of hands that hold the player in the given field
WinCount(hands, n) == Cardinality({h \in DOMAIN hands : n \in hands[h].winners})
HandCount(hands, n) == Cardinality({h \in DOMAIN hands : n \in hands[h].players_involved})

\* self.player_stats[player_name] before the rankings
StatsOf(data, n, ids, hands) ==
    LET history == ChipHistory(data, n, Len(data))
    IN [total_rebuy_amt |-> RebuyAmount(data, n),
        total_win_cnt |-> WinCount(hands, n),
        total_hand_cnt |-> HandCount(hands, n),
        total_chip |-> FinalChips(history),
        rank |-> None,
        total_income |-> FinalChips(history) - RebuyAmount(data, n),
        out_time |-> OutTime(data, n, ids, history)]

\* the members of a sequence that lie in a set, in the sequence's order
Only(s, S) ==
    LET keep == {i \in DOMAIN s : s[i] \in S}
        nth(k) == CHOOSE i \in keep : Cardinality({j \in keep : j < i}) = k - 1
    IN [k \in 1..Cardinality(keep) |-> s[nth(k)]]

\* a slip: the players that have an out time instead of those without chips
EliminatedByOutTime(order, stats) ==
    Only(order, {p \in Range(order) : stats[p].out_time # None})

\* eliminated_players before it is sorted: the roster iterates in `order`
EliminatedPlayers(order, stats) ==
    Only(order, {p \in Range(order) : stats[p].total_chip = 0})

\* active_players before it is sorted
ActivePlayers(order, stats) ==
    Only(order, {p \in Range(order) :
                    /\ p \notin Range(EliminatedPlayers(order, stats))
                    /\ stats[p].total_chip > 0})

\* a slip: a player without out time sorts as datetime.min
OutKeyMin(stats, p) == IF stats[p].out_time = None THEN DatetimeMin ELSE stats[p].out_time

\* self.player_stats[p]['out_time'] or datetime.max
OutKey(stats, p) == IF stats[p].out_time = None THEN DatetimeMax ELSE stats[p].out_time

\* eliminated_players.sort(key=out_time or datetime.max)
SortedEliminated(order, stats) ==
    LET e == EliminatedPlayers(order, stats)
    IN StableSort(e, [i \in DOMAIN e |-> OutKey(stats, e[i])])

\* a slip: the active players are sorted by their chips, as they once were,
\* not by their income
SortedActiveByChips(order, stats) ==
    LET a == ActivePlayers(order, stats)
    IN StableSortReverse(a, [i \in DOMAIN a |-> stats[a[i]].total_chip])

\* active_players.sort(key=total_income, reverse=True)
SortedActive(order, stats) ==
    LET a == ActivePlayers(order, stats)
    IN StableSortReverse(a, [i \in DOMAIN a |-> stats[a[i]].total_income])

\* a slip: the rank counter starts again at 1 for the eliminated players
FirstEliminatedRankRestarts(order, stats) == 1

\* the value of `rank` when the loop over the eliminated players starts
FirstEliminatedRank(order, stats) == Len(SortedActive(order, stats)) + 1

\* the place of p in a list without repetitions
PlaceIn(l, p) == CHOOSE i \in DOMAIN l : l[i] = p

\* the rank _calculate_rankings gives player p (None if it gives none): the
\* loop over the eliminated players assigns after the loop over the active
RankOf(order, stats, p) ==
    IF p \in Range(SortedEliminated(order, stats))
    THEN FirstEliminatedRank(order, stats) + PlaceIn(SortedEliminated(order, stats), p) - 1
    ELSE IF p \in Range(SortedActive(order, stats))
    THEN PlaceIn(SortedActive(order, stats), p)
    ELSE None

\* self.player_stats after _calculate_rankings
Ranked(order, stats) ==
    [p \in DOMAIN stats |-> [stats[p] EXCEPT !.rank = RankOf(order, stats, p)]]

-----------------------------------------------------------------------------
(* _format_results.                                                        *)

\* the record appended for a player
PlayerData(stats, p) ==
    [user_name |-> p,
     rank |-> stats[p].rank,
     total_rebuy_amt |-> stats[p].total_rebuy_amt,
     total_win_cnt |-> stats[p].total_win_cnt,
     total_hand_cnt |-> stats[p].total_hand_cnt,
     total_chip |-> stats[p].total_chip,
     total_income |-> stats[p].total_income]

\* results['players'] after the sort by rank
PlayersList(order, stats) ==
    LET l == [i \in DOMAIN order |-> PlayerData(stats, order[i])]
    IN StableSort(l, [i \in DOMAIN l |-> l[i].rank])

\* the dictionary returned
Results(order, stats, start, end, hands) ==
    [game_period |-> [start |-> start, end |-> end],
     total_hands |-> hands,
     players |-> PlayersList(order, stats)]

-----------------------------------------------------------------------------
(* calculate_prize_distribution and calculate_player_fees.                 *)

\* a slip: every rebuy is charged, the free ones too
AdditionalFeeEveryRebuy(rebuy_count) == rebuy_count * REBUY_FEE

\* the fee a rebuy count adds beyond the free rebuys
AdditionalFee(rebuy_count) ==
    IF rebuy_count > FREE_REBUYS THEN (rebuy_count - FREE_REBUYS) * REBUY_FEE ELSE 0

\* what the loop over the rows has added to the pool after k rows
RebuyFees(df, k) == SumTo([i \in 1..k |-> AdditionalFee(df[i].rebuy_count)], k)

\* total_prize_pool
PrizePool(df) == Len(df) * ENTRY_FEE + RebuyFees(df, Len(df))

\* calculate_player_fees: (entry_fee, additional_fee, total_fee)
PlayerFees(rebuy_count) ==
    <<ENTRY_FEE, AdditionalFee(rebuy_count), ENTRY_FEE + AdditionalFee(rebuy_count)>>

\* a / b rounded to the nearest integer, a half to the even neighbour
RoundDiv(a, b) ==
    LET q == a \div b
        r2 == 2 * (a % b)
    IN IF r2 > b \/ (r2 = b /\ q % 2 = 1) THEN q + 1 ELSE q

\* round(percentage, 2) of rank r among n players, in hundredths:
\* (n - r) * 200 / (n * (n - 1)) percent
RoundedPercentage(n, r) ==
    IF r = n THEN 0 ELSE RoundDiv((n - r) * 20000, n * (n - 1))

\* the player counts up to 57 at which the rounded percentages sum to 100.00
\* plus or minus 0.01 and the binary floating-point sum differs from 100 by
\* more than the float 0.01
FloatNoiseExceeds == {13, 23, 38, 44}

\* abs(total_pct - 100) > 0.01
OffByMoreThanTolerance(n, total) ==
    \/ Abs(total - 10000) > 1
    \/ Abs(total - 10000) = 1 /\ n \in FloatNoiseExceeds

\* the dict percentages after the adjustment of first place
Percentages(n) ==
    LET rounded == [r \in 1..n |-> RoundedPercentage(n, r)]
        total == SumTo(rounded, n)
    IN IF OffByMoreThanTolerance(n, total)
       THEN [rounded EXCEPT ![1] = @ + (10000 - total)]
       ELSE rounded

\* the pairs (pool, percentage in hundredths), among the pools of up to 50
\* players and of the largest table and the percentages of their ranks, at
\* which the share is a whole number of hundreds and the binary
\* floating-point product pool * percentage / 100 falls just below it
\* (200000 * 4.1 / 100 is 8199.999999999998)
FloatProductFallsShort ==
    {<<200000, 115>>, <<200000, 205>>, <<200000, 410>>,
     <<700000, 140>>, <<750000, 116>>, <<800000, 115>>}

\* int(exact_prize // 100 * 100) with exact_prize = pool * percentage / 100
TruncatedPrize(pool, hundredths) ==
    LET hundreds == (pool * hundredths) \div 1000000
    IN IF <<pool, hundredths>> \in FloatProductFallsShort
       THEN (hundreds - 1) * 100
       ELSE hundreds * 100

\* a slip: first place gets its truncated share like the other ranks
FirstPrizeTruncated(pool, others, n) == TruncatedPrize(pool, Percentages(n)[1])

\* first place gets the remainder
FirstPrize(pool, others, n) == pool - SumTo([r \in 1..(n - 1) |-> others[r + 1]], n - 1)

\* the dict prizes
Prizes(n, pool) ==
    IF n > 1
    THEN LET others == [r \in 2..n |-> TruncatedPrize(pool, Percentages(n)[r])]
         IN [r \in 1..n |-> IF r = 1 THEN FirstPrize(pool, others, n) ELSE others[r]]
    ELSE [r \in {1} |-> pool]

\* the dict prize_percentages
PrizePercentages(n) == IF n > 1 THEN Percentages(n) ELSE [r \in {1} |-> 10000]

-----------------------------------------------------------------------------
(* The log files and data frames the specifications start from.            *)

Iso(t) == [fmt |-> "iso", t |-> t]
IsoOffset(t) == [fmt |-> "iso_offset", t |-> t]
BadTimestamp == [fmt |-> "bad"]
AtLabel == [fmt |-> "at"]

Row(e, ts, o) == [cols |-> 3, entry |-> e, timestamp |-> ts, order |-> o]

Join(n, a) == [kind |-> "join", name |-> n, id |-> TokenOf(n), amt |-> a]
StandsUp(n) == [kind |-> "stands_up", name |-> n, id |-> TokenOf(n)]
SitsBack(n, a) == [kind |-> "sits_back", name |-> n, id |-> TokenOf(n), amt |-> a]
SitsWith(n, a) == [kind |-> "sits_with", name |-> n, id |-> TokenOf(n), amt |-> a]
Action(n) == [kind |-> "action", name |-> n, id |-> TokenOf(n)]
Other == [kind |-> "other"]
Collected(n, a) == [kind |-> "collected", name |-> n, id |-> TokenOf(n), amt |-> a]
\* '-- starting hand #<number> (id: <hid>) ... (dealer: "<name> @ <id>") --',
\* the dealer left out at a dead button
HandStartOf(number, hid, dealer) ==
    [kind |-> "hand_start", number |-> number, hid |-> hid, dealer |-> dealer]
Listing(n, a) == [name |-> n, id |-> TokenOf(n), amt |-> a]

\* a stack broadcast listing the players of S, each with a stack chosen by c
StacksOf(S, c) ==
    LET nth(k) == CHOOSE n \in S : Cardinality({m \in S : IndexOf(m) < IndexOf(n)}) = k - 1
    IN [kind |-> "stacks", list |-> [k \in 1..Cardinality(S) |-> Listing(nth(k), c[nth(k)])]]

\* an export lists its rows oldest first ("asc") or newest first ("desc", as
\* PokerNow does), one instant a row; `order` grows with time
Stamped(es, dir) ==
    LET n == Len(es)
        at(i) == IF dir = "asc" THEN i ELSE n + 1 - i
    IN [i \in 1..n |-> Row(es[i], Iso(at(i)), at(i))]

\* the entries of the ranking specification: broadcasts of stacks 0 and 30000
\* to any players, and buy-ins of 20000
RankEntries ==
    {StacksOf(S, c) : S \in (SUBSET Names) \ {{}}, c \in [Names -> {0, 30000}]}
    \cup {Join(n, 20000) : n \in Names}

RankFiles == {Stamped(es, dir) : es \in SeqsUpTo(RankEntries, MaxRows), dir \in {"asc", "desc"}}

\* the entries and timestamp strings of the ordering specification
SortEntries == {Other, Action("ann")}
SortStamps == {BadTimestamp, AtLabel, Iso(1), Iso(2), IsoOffset(2)}

\* rows of any of these entries and timestamps; `order` counts up or down the
\* file
SortFiles ==
    {[i \in DOMAIN rs |-> Row(rs[i][1], rs[i][2], IF dir = "asc" THEN i ELSE Len(rs) + 1 - i)] :
        rs \in SeqsUpTo(SortEntries \X SortStamps, MaxSortRows), dir \in {"asc", "desc"}}

\* the entries of the rebuy-ledger specification: what one player can do to
\* her stack, and a buy-in of another player
LedgerEntries ==
    {Join("ann", 20000), Join("ann", 40000), Join("ann", 0), StandsUp("ann"),
     SitsBack("ann", 40000), SitsWith("ann", 40000), Action("ann"),
     StacksOf({"ann"}, [n \in Names |-> 20000]), StacksOf({"ann"}, [n \in Names |-> 40000]),
     Join("bob", 20000)}

LedgerFiles == {Stamped(es, "asc") : es \in SeqsUpTo(LedgerEntries, MaxLedgerRows)}

\* the data frames handed to the prize calculator: one row a player, in rank
\* order, rebuy counts up to MaxRebuyCount.  The pool is a sum over the rows,
\* so every multiset of rebuy counts is taken once, largest count first.
Frame(n, t) ==
    [i \in 1..n |-> [rank |-> i,
                     rebuy_count |-> Cardinality({m \in 1..MaxRebuyCount : t[m] >= i})]]

PrizeFrames ==
    UNION {{Frame(n, t) : t \in {u \in [1..MaxRebuyCount -> 0..n] :
                                    \A m \in 1..(MaxRebuyCount - 1) : u[m] >= u[m + 1]}} :
           n \in 0..MaxPrizePlayers}

\* the entries of the elimination specification: broadcasts of an empty
\* stack to one player or to all, of a stack of 30000 to one player, and a
\* buy-in
OutEntries ==
    {StacksOf({n}, [m \in Names |-> 0]) : n \in Names}
    \cup {StacksOf(Names, [m \in Names |-> 0]),
          StacksOf({"ann"}, [m \in Names |-> 30000]),
          Join("cy", 20000)}

\* an export whose rows carry their instant or, where true timestamps are
\* absent, the label 'at'
OutFiles ==
    {[i \in DOMAIN rs |->
        LET at == IF dir = "asc" THEN i ELSE Len(rs) + 1 - i
        IN Row(rs[i][1], IF rs[i][2] = "at" THEN AtLabel ELSE Iso(at), at)] :
        rs \in SeqsUpTo(OutEntries \X {"iso", "at"}, MaxOutRows), dir \in {"asc", "desc"}}

\* the entries of the hand specification: hand-start markers numbered 1 to
\* 3 under two hand ids, an action and a pot collection
HandEntries ==
    {HandStartOf(k, h, <<>>) : k \in 1..3, h \in {"h1", "h2"}}
    \cup {HandStartOf(2, "h1", <<[name |-> "bob", id |-> TokenOf("bob")]>>),
          Action("ann"), Collected("ann", 100)}

HandFiles == {Stamped(es, "asc") : es \in SeqsUpTo(HandEntries, MaxHandRows)}

\* the entries of the tied-timestamp specification: two hand-start markers,
\* an action, and broadcasts of an empty and of a full stack
TiedEntries ==
    {HandStartOf(1, "h1", <<>>), HandStartOf(2, "h2", <<>>), Action("ann"),
     StacksOf({"ann"}, [n \in Names |-> 0]), StacksOf({"ann"}, [n \in Names |-> 30000])}

\* an export newest first, as PokerNow writes it: `order` falls down the
\* file, the instants never rise, and neighbouring rows may share an
\* instant (the log stamps to the millisecond)
TiedFiles ==
    UNION {{[i \in 1..k |-> Row(es[i], Iso(ts[i]), k + 1 - i)] :
                es \in [1..k -> TiedEntries],
                ts \in {t \in [1..k -> 1..2] : \A i \in 1..(k - 1) : t[i] >= t[i + 1]}} :
           k \in 0..MaxTiedRows}

\* a player's action and pot collection under a given session token
ActionAs(n, id) == [kind |-> "action", name |-> n, id |-> id]
CollectedAs(n, id, a) == [kind |-> "collected", name |-> n, id |-> id, amt |-> a]

\* the entries of the session-token specification: two hand-start markers,
\* and one player's actions and pot collections under her first token and
\* under a second one
TokenEntries ==
    {HandStartOf(1, "h1", <<>>), HandStartOf(2, "h2", <<>>)}
    \cup {ActionAs("ann", id) : id \in {"a1", "a2"}}
    \cup {CollectedAs("ann", id, 100) : id \in {"a1", "a2"}}

TokenFiles == {Stamped(es, dir) : es \in SeqsUpTo(TokenEntries, MaxTokenRows), dir \in {"asc", "desc"}}

\* a row of the file with fewer than three columns
ShortRow(e, c) == [cols |-> c, entry |-> e]

\* the entries of the column specification
ColumnEntries == {Other, Action("ann"), Join("ann", 20000)}

\* rows of one, two or three columns, oldest first
ColumnFiles ==
    {[i \in DOMAIN rs |-> IF rs[i][2] >= 3 THEN Row(rs[i][1], Iso(i), i)
                                            ELSE ShortRow(rs[i][1], rs[i][2])] :
        rs \in SeqsUpTo(ColumnEntries \X {1, 2, 3}, MaxColumnRows)}

\* the data frames of large tables: the winner has any rebuy count, the
\* other players none
LargeFrames ==
    {Frame(n, [m \in 1..MaxRebuyCount |-> IF m <= c THEN 1 ELSE 0]) :
        n \in 0..MaxLargePlayers, c \in 0..MaxRebuyCount}

\* the data frames of the largest table: MaxHugePlayers players, the winner
\* has any rebuy count up to MaxHugeRebuys, the other players none
HugeFrames ==
    {[i \in 1..MaxHugePlayers |-> [rank |-> i, rebuy_count |-> IF i = 1 THEN c ELSE 0]] :
        c \in 0..MaxHugeRebuys}

-----------------------------------------------------------------------------
(* The state after construction, and the steps of parse().                 *)

\* PokerNowLogParser.__init__, given the file at log_file_path
ParserInit(files) ==
    /\ file \in files
    /\ pc = "read"
    /\ game_data = <<>>
    /\ sorted_game_data = <<>>
    /\ player_names = {}
    /\ player_ids = <<>>
    /\ iter_order = <<>>
    /\ game_start_time = None
    /\ game_end_time = None
    /\ total_hands = 0
    /\ hand_data = <<>>
    /\ hand_index = 0
    /\ current_hand_id = ""
    /\ player_stats = <<>>
    /\ results = <<>>

\* the callers that share the connection of the PokerDBManager singleton
Callers == {"c1", "c2"}

\* store_game_data returns None: the empty tuple, a game id being a tuple
ReturnsNone == <<>>

\* no transaction is open on the connection
NoTransaction == [active |-> FALSE, games |-> {}, players |-> {}, game_players |-> {}]

\* a caller that has not called store_game_data
CallInit ==
    [pc |-> "idle", game_data |-> <<>>, game_id |-> <<>>, attempt |-> 0,
     candidates |-> {}, index |-> 0, player_id |-> 0, result |-> ReturnsNone,
     inserted |-> {}]

\* empty tables and nobody storing a game
StoreIdle ==
    /\ games = {}
    /\ players = {}
    /\ game_players = {}
    /\ transaction = NoTransaction
    /\ call = [c \in Callers |-> CallInit]
    /\ store_calls = 0

\* no prize calculation is under way
PrizeIdle ==
    /\ players_df = <<>>
    /\ prizes = <<>>
    /\ prize_percentages = <<>>
    /\ total_prize_pool = 0

read_log_file ==
    /\ pc = "read"
    /\ game_data' = ReadRows(file)
    /\ pc' = "sort"
    /\ UNCHANGED <<file, sorted_game_data, player_names, player_ids, iter_order,
                   game_start_time, game_end_time, total_hands, hand_data,
                   player_stats, results, prizeVars, scanVars, storeVars>>

sort_data_by_time ==
    /\ pc = "sort"
    /\ game_data' = [i \in DOMAIN game_data |-> WithDatetime(game_data[i])]
    /\ IF SortRaises(game_data')
       THEN /\ pc' = "failed"
            /\ UNCHANGED sorted_game_data
       ELSE /\ sorted_game_data' = SortByTime(game_data')
            /\ pc' = "extract"
    /\ UNCHANGED <<file, player_names, player_ids, iter_order, game_start_time,
                   game_end_time, total_hands, hand_data, player_stats, results,
                   prizeVars, scanVars, storeVars>>

extract_player_names_and_ids ==
    /\ pc = "extract"
    /\ player_names' = ExtractNames(sorted_game_data)
    /\ player_ids' = ExtractIds(sorted_game_data)
    /\ pc' = "period"
    /\ UNCHANGED <<file, game_data, sorted_game_data, iter_order, game_start_time,
                   game_end_time, total_hands, hand_data, player_stats, results,
                   prizeVars, scanVars, storeVars>>

process_game_period ==
    /\ pc = "period"
    /\ IF sorted_game_data = <<>>
       THEN UNCHANGED <<game_start_time, game_end_time>>
       ELSE /\ game_start_time' = GetDatetime(sorted_game_data[1], None)
            /\ game_end_time' = GetDatetime(sorted_game_data[Len(sorted_game_data)], None)
    /\ pc' = "hands"
    /\ UNCHANGED <<file, game_data, sorted_game_data, player_names, player_ids,
                   iter_order, total_hands, hand_data, player_stats, results,
                   prizeVars, scanVars, storeVars>>

process_hands ==
    /\ pc = "hands"
    /\ LET end == HandScan(sorted_game_data, player_ids, Len(sorted_game_data))
       IN /\ hand_data' = end.hand_data
          /\ total_hands' = end.total_hands
          /\ current_hand_id' = end.current_hand_id
    /\ hand_index' = Len(sorted_game_data)
    /\ pc' = "stats"
    /\ UNCHANGED <<file, game_data, sorted_game_data, player_names, player_ids,
                   iter_order, game_start_time, game_end_time, player_stats,
                   results, prizeVars, storeVars>>

\* one iteration of the loop of _process_hands
process_hands_step ==
    /\ pc = "hands"
    /\ hand_index < Len(sorted_game_data)
    /\ LET st == HandStep([current_hand_id |-> current_hand_id, hand_data |-> hand_data,
                           total_hands |-> total_hands],
                          sorted_game_data[hand_index + 1].entry, player_ids)
       IN /\ hand_data' = st.hand_data
          /\ total_hands' = st.total_hands
          /\ current_hand_id' = st.current_hand_id
    /\ hand_index' = hand_index + 1
    /\ UNCHANGED <<pc, file, game_data, sorted_game_data, player_names, player_ids,
                   iter_order, game_start_time, game_end_time, player_stats,
                   results, prizeVars, storeVars>>

\* the loop of _process_hands is over
process_hands_end ==
    /\ pc = "hands"
    /\ hand_index = Len(sorted_game_data)
    /\ pc' = "stats"
    /\ UNCHANGED <<file, game_data, sorted_game_data, player_names, player_ids,
                   iter_order, game_start_time, game_end_time, total_hands,
                   hand_data, player_stats, results, prizeVars, scanVars, storeVars>>

\* The set player_names iterates in an order that depends on the hashes of
\* the names, which differ from one interpreter run to the next; the order is
\* the same for every loop of one run.  It first matters here, where the
\* lists that are ranked are built from it.  The step ends parse() with an
\* exception when the ledger of a player raises.
calculate_player_stats ==
    /\ pc = "stats"
    /\ LET raises == \E n \in player_names : LedgerRaises(sorted_game_data, n)
           stats == [n \in player_names |->
                        StatsOf(sorted_game_data, n, player_ids, hand_data)]
       IN \E order \in Perms(player_names) :
            /\ iter_order' = order
            /\ IF raises
               THEN /\ pc' = "failed"
                    /\ UNCHANGED player_stats
               ELSE /\ pc' = "format"
                    /\ player_stats' = Ranked(order, stats)
    /\ UNCHANGED <<file, game_data, sorted_game_data, player_names, player_ids,
                   game_start_time, game_end_time, total_hands, hand_data,
                   results, prizeVars, scanVars, storeVars>>

format_results ==
    /\ pc = "format"
    /\ results' = Results(iter_order, player_stats, game_start_time, game_end_time,
                          total_hands)
    /\ pc' = "done"
    /\ UNCHANGED <<file, game_data, sorted_game_data, player_names, player_ids,
                   iter_order, game_start_time, game_end_time, total_hands,
                   hand_data, player_stats, prizeVars, scanVars, storeVars>>

\* parse(): its steps in order
Next ==
    \/ read_log_file
    \/ sort_data_by_time
    \/ extract_player_names_and_ids
    \/ process_game_period
    \/ process_hands
    \/ calculate_player_stats
    \/ format_results

\* parse() on a log of stack broadcasts and buy-ins
Init == ParserInit(RankFiles) /\ PrizeIdle /\ StoreIdle

Spec == Init /\ [][Next]_vars

\* parse() on a log of rows with good, bad and missing timestamps
InitSort == ParserInit(SortFiles) /\ PrizeIdle /\ StoreIdle

SpecSort == InitSort /\ [][Next]_vars

\* parse() on a log of one player's buy-ins, absences and stack broadcasts
InitLedger == ParserInit(LedgerFiles) /\ PrizeIdle /\ StoreIdle

SpecLedger == InitLedger /\ [][Next]_vars

\* parse() on a log of eliminations, some rows without a true timestamp
InitOut == ParserInit(OutFiles) /\ PrizeIdle /\ StoreIdle

SpecOut == InitOut /\ [][Next]_vars

\* parse(), the loop of _process_hands taken one iteration at a time
NextHands ==
    \/ read_log_file
    \/ sort_data_by_time
    \/ extract_player_names_and_ids
    \/ process_game_period
    \/ process_hands_step
    \/ process_hands_end
    \/ calculate_player_stats
    \/ format_results

\* parse() on a log of hands
InitHands == ParserInit(HandFiles) /\ PrizeIdle /\ StoreIdle

SpecHands == InitHands /\ [][NextHands]_vars

\* parse() on a newest-first log whose rows may share a timestamp, the loop
\* of _process_hands taken one iteration at a time
InitTied == ParserInit(TiedFiles) /\ PrizeIdle /\ StoreIdle

SpecTied == InitTied /\ [][NextHands]_vars

\* parse() on a log in which a player comes back under a second token, the
\* loop of _process_hands taken one iteration at a time
InitTokens == ParserInit(TokenFiles) /\ PrizeIdle /\ StoreIdle

SpecTokens == InitTokens /\ [][NextHands]_vars

\* parse() on a log some of whose rows lack columns
InitColumns == ParserInit(ColumnFiles) /\ PrizeIdle /\ StoreIdle

SpecColumns == InitColumns /\ [][Next]_vars

-----------------------------------------------------------------------------
(* The prize calculation.                                                  *)

\* no parser is at work
ParserIdle ==
    /\ file = <<>>
    /\ game_data = <<>>
    /\ sorted_game_data = <<>>
    /\ player_names = {}
    /\ player_ids = <<>>
    /\ iter_order = <<>>
    /\ game_start_time = None
    /\ game_end_time = None
    /\ total_hands = 0
    /\ hand_data = <<>>
    /\ hand_index = 0
    /\ current_hand_id = ""
    /\ player_stats = <<>>
    /\ results = <<>>

calculate_prize_distribution ==
    /\ pc = "prize"
    /\ total_prize_pool' = PrizePool(players_df)
    /\ prize_percentages' = PrizePercentages(Len(players_df))
    /\ prizes' = Prizes(Len(players_df), PrizePool(players_df))
    /\ pc' = "prize_done"
    /\ UNCHANGED <<players_df, parserVars, storeVars>>

InitPrize ==
    /\ ParserIdle
    /\ StoreIdle
    /\ pc = "prize"
    /\ players_df \in PrizeFrames
    /\ prizes = <<>>
    /\ prize_percentages = <<>>
    /\ total_prize_pool = 0

NextPrize == calculate_prize_distribution

SpecPrize == InitPrize /\ [][NextPrize]_vars

\* the prize calculation for a large table
InitPrizeLarge ==
    /\ ParserIdle
    /\ StoreIdle
    /\ pc = "prize"
    /\ players_df \in LargeFrames
    /\ prizes = <<>>
    /\ prize_percentages = <<>>
    /\ total_prize_pool = 0

SpecPrizeLarge == InitPrizeLarge /\ [][NextPrize]_vars

\* the prize calculation for the largest table
InitPrizeHuge ==
    /\ ParserIdle
    /\ StoreIdle
    /\ pc = "prize"
    /\ players_df \in HugeFrames
    /\ prizes = <<>>
    /\ prize_percentages = <<>>
    /\ total_prize_pool = 0

SpecPrizeHuge == InitPrizeHuge /\ [][NextPrize]_vars

-----------------------------------------------------------------------------
(* PokerDBManager: store_game_data and game_exists.                        *)
(*                                                                         *)
(* The callers share one connection.  Each self.conn.execute is one step;  *)
(* the callers' steps interleave between them.  The connection has one     *)
(* transaction for all callers: every caller sees the rows that are not    *)
(* committed yet, BEGIN TRANSACTION raises while a transaction is open,    *)
(* ROLLBACK brings the tables back to what BEGIN found, and COMMIT and     *)
(* ROLLBACK raise when none is open.                                       *)

\* required_fields (line 331)
required_fields ==
    {"rank", "total_rebuy_amt", "total_win_cnt", "total_hand_cnt", "total_chip",
     "total_income"}

\* an entry of game_data['players']
PlayerEntry(n, r) ==
    [user_name |-> n, rank |-> r, total_rebuy_amt |-> 20000, total_win_cnt |-> 1,
     total_hand_cnt |-> 2, total_chip |-> 20000, total_income |-> 0]

\* the dictionary d without key k
Without(d, k) == [f \in DOMAIN d \ {k} |-> d[f]]

\* a dictionary as parse() returns it
GameOf(start, ps) ==
    [game_period |-> [start |-> start, end |-> start + 1], total_hands |-> 2,
     players |-> ps]

\* the dictionaries handed to store_game_data: a game, the same game with
\* its players in another order, games at the same time with other players,
\* a game at another time, a game whose second player lacks a field, a game
\* that lists a player twice, and a game without players
StoreGames ==
    {GameOf(1, <<PlayerEntry("ann", 1), PlayerEntry("bob", 2)>>),
     GameOf(1, <<PlayerEntry("bob", 2), PlayerEntry("ann", 1)>>),
     GameOf(1, <<PlayerEntry("ann", 1)>>),
     GameOf(2, <<PlayerEntry("ann", 1), PlayerEntry("bob", 2)>>),
     GameOf(1, <<PlayerEntry("ann", 1), Without(PlayerEntry("bob", 2), "total_chip")>>),
     GameOf(1, <<PlayerEntry("ann", 1), PlayerEntry("ann", 2)>>),
     GameOf(1, <<>>)}

\* the values uuid.uuid4() may return
UUIDs == {1, 2}

\* player_names = [player['user_name'] for player in game_data['players']]
PlayerNamesOf(g) == [i \in DOMAIN g.players |-> g.players[i].user_name]

\* how often each name occurs in a list: two lists are equal after sorting
\* exactly when these agree
Occurrences(l) == [n \in Names |-> Cardinality({i \in DOMAIN l : l[i] = n})]

\* hash(tuple(sorted(player_names))) % 10000
NameCode(n) == IF n = "ann" THEN 1 ELSE IF n = "bob" THEN 10 ELSE 100
HashOf(l) == SumTo([i \in DOMAIN l |-> NameCode(l[i])], Len(l)) % 10000

\* the game ids of the three attempts and of the failsafe
FirstGameId(g) == <<"hash", g.game_period.start, HashOf(PlayerNamesOf(g))>>
SuffixGameId(g, u) == <<"suffix", g.game_period.start, u>>
UuidGameId(u) == <<"uuid", 0, u>>
FailsafeGameId(u) == <<"failsafe", 0, u>>

\* the names game_players JOIN players gives for a game id
DbPlayers(game_id) ==
    [n \in Names |->
        Cardinality({r \in game_players :
            /\ r.game_id = game_id
            /\ \E p \in players : p.player_id = r.player_id /\ p.player_name = n})]

\* SELECT 1 FROM games WHERE game_id = ?
IdExists(game_id) == \E g \in games : g.game_id = game_id

\* the row INSERT INTO games adds
GameRow(game_id, g) ==
    [game_id |-> game_id, log_file_name |-> "log.csv",
     start_time |-> g.game_period.start, end_time |-> g.game_period["end"],
     total_hands |-> g.total_hands, player_count |-> Len(g.players)]

\* the row INSERT INTO game_players adds
GamePlayerRow(game_id, player_id, d) ==
    [game_id |-> game_id, player_id |-> player_id, rank |-> d.rank,
     total_rebuy_amt |-> d.total_rebuy_amt, total_win_cnt |-> d.total_win_cnt,
     total_hand_cnt |-> d.total_hand_cnt, total_chip |-> d.total_chip,
     total_income |-> d.total_income]

\* SELECT COALESCE(MAX(player_id), 0) + 1 FROM players
NextPlayerId ==
    IF players = {} THEN 1
    ELSE (CHOOSE p \in players : \A q \in players : q.player_id <= p.player_id).player_id + 1

\* a slip: an entry that lacks a required field ends the loop and what was
\* stored so far is committed
PlayerLoopCommitsOnError(g, i) ==
    IF i > Len(g.players) THEN "commit"
    ELSE IF \E f \in required_fields : f \notin DOMAIN g.players[i] THEN "commit"
    ELSE "select_player"

\* where the loop over game_data['players'] goes for its entry i: past the
\* last entry to COMMIT, for an entry that lacks a required field to the
\* ROLLBACK of the KeyError handler, otherwise into _get_or_create_player
PlayerLoop(g, i) ==
    IF i > Len(g.players) THEN "commit"
    ELSE IF \E f \in required_fields : f \notin DOMAIN g.players[i] THEN "rollback"
    ELSE "select_player"

\* the call of caller c returns
Returns(c, value) ==
    call' = [call EXCEPT ![c] = [@ EXCEPT !.pc = "returned", !.result = value]]

\* the call of caller c moves on
Goes(c, to) == call' = [call EXCEPT ![c] = [@ EXCEPT !.pc = to]]

\* the tables after ROLLBACK
rolled_back ==
    /\ games' = transaction.games
    /\ players' = transaction.players
    /\ game_players' = transaction.game_players
    /\ transaction' = NoTransaction

\* store_game_data is called: lines 203-235, up to the call of game_exists
store_game_data(c) ==
    /\ pc = "store"
    /\ call[c].pc \in {"idle", "returned"}
    /\ store_calls < MaxStoreCalls
    /\ store_calls' = store_calls + 1
    /\ \E g \in StoreGames :
        call' = [call EXCEPT ![c] =
                    IF Len(g.players) = 0
                    THEN [CallInit EXCEPT !.game_data = g, !.pc = "returned"]
                    ELSE [CallInit EXCEPT !.game_data = g, !.pc = "game_exists"]]
    /\ UNCHANGED <<pc, parserVars, prizeVars, tableVars>>

\* game_exists: the SELECT on games by start time, the rows with another
\* player count passed over; without a row left it returns False and
\* store_game_data goes on to its first game id
game_exists(c) ==
    /\ call[c].pc = "game_exists"
    /\ LET g == call[c].game_data
           result == {r \in games : r.start_time = g.game_period.start}
           same == {r.game_id : r \in {q \in result : q.player_count = Len(g.players)}}
       IN call' = [call EXCEPT ![c] =
                      IF same = {}
                      THEN [@ EXCEPT !.pc = "check_game_id", !.game_id = FirstGameId(g),
                                     !.attempt = 1]
                      ELSE [@ EXCEPT !.pc = "compare_players", !.candidates = same]]
    /\ UNCHANGED <<pc, parserVars, prizeVars, tableVars, store_calls>>

\* game_exists: the SELECT of the players of one of the rows and the
\* comparison of the sorted lists; on a match store_game_data returns None
compare_players(c) ==
    /\ call[c].pc = "compare_players"
    /\ \E game_id \in call[c].candidates :
        LET g == call[c].game_data
            left == call[c].candidates \ {game_id}
        IN call' = [call EXCEPT ![c] =
                      IF DbPlayers(game_id) = Occurrences(PlayerNamesOf(g))
                      THEN [@ EXCEPT !.pc = "returned", !.result = ReturnsNone]
                      ELSE IF left = {}
                      THEN [@ EXCEPT !.pc = "check_game_id", !.game_id = FirstGameId(g),
                                     !.attempt = 1, !.candidates = {}]
                      ELSE [@ EXCEPT !.candidates = left]]
    /\ UNCHANGED <<pc, parserVars, prizeVars, tableVars, store_calls>>

\* the SELECT that looks for the game id, and the next attempt when the id
\* is taken: a random suffix, a full UUID, and the failsafe id after the
\* ValueError of the third attempt
check_game_id(c) ==
    /\ call[c].pc = "check_game_id"
    /\ IF ~IdExists(call[c].game_id)
       THEN Goes(c, "begin")
       ELSE \E u \in UUIDs :
              call' = [call EXCEPT ![c] =
                          IF call[c].attempt = 1
                          THEN [@ EXCEPT !.game_id = SuffixGameId(call[c].game_data, u),
                                         !.attempt = 2]
                          ELSE IF call[c].attempt = 2
                          THEN [@ EXCEPT !.game_id = UuidGameId(u), !.attempt = 3]
                          ELSE [@ EXCEPT !.game_id = FailsafeGameId(u), !.pc = "begin"]]
    /\ UNCHANGED <<pc, parserVars, prizeVars, tableVars, store_calls>>

\* BEGIN TRANSACTION; when it raises, store_game_data returns None
begin_transaction(c) ==
    /\ call[c].pc = "begin"
    /\ IF transaction.active
       THEN /\ Returns(c, ReturnsNone)
            /\ UNCHANGED tableVars
       ELSE /\ transaction' = [active |-> TRUE, games |-> games, players |-> players,
                               game_players |-> game_players]
            /\ Goes(c, "insert_game")
            /\ UNCHANGED <<games, players, game_players>>
    /\ UNCHANGED <<pc, parserVars, prizeVars, store_calls>>

\* INSERT INTO games; a taken game id raises and leads to the ROLLBACK of
\* the outer handler
insert_game(c) ==
    /\ call[c].pc = "insert_game"
    /\ LET row == GameRow(call[c].game_id, call[c].game_data)
       IN IF IdExists(call[c].game_id)
          THEN /\ Goes(c, "rollback_outer")
               /\ UNCHANGED games
          ELSE /\ games' = games \cup {row}
               /\ call' = [call EXCEPT ![c] =
                              [@ EXCEPT !.pc = PlayerLoop(call[c].game_data, 1),
                                        !.index = 1,
                                        !.inserted = @ \cup {<<"games", row>>}]]
    /\ UNCHANGED <<pc, parserVars, prizeVars, players, game_players, transaction,
                   store_calls>>

\* _get_or_create_player: SELECT player_id FROM players WHERE player_name = ?
select_player(c) ==
    /\ call[c].pc = "select_player"
    /\ LET n == call[c].game_data.players[call[c].index].user_name
           result == {p \in players : p.player_name = n}
       IN call' = [call EXCEPT ![c] =
                      IF result # {}
                      THEN [@ EXCEPT !.pc = "insert_game_player",
                                     !.player_id = (CHOOSE p \in result : TRUE).player_id]
                      ELSE [@ EXCEPT !.pc = "next_player_id"]]
    /\ UNCHANGED <<pc, parserVars, prizeVars, tableVars, store_calls>>

\* _get_or_create_player: the SELECT of the next player id
next_player_id(c) ==
    /\ call[c].pc = "next_player_id"
    /\ call' = [call EXCEPT ![c] = [@ EXCEPT !.pc = "insert_player",
                                            !.player_id = NextPlayerId]]
    /\ UNCHANGED <<pc, parserVars, prizeVars, tableVars, store_calls>>

\* _get_or_create_player: INSERT INTO players; a taken id or name raises,
\* is raised again and leads to the ROLLBACK of the loop's handler
insert_player(c) ==
    /\ call[c].pc = "insert_player"
    /\ LET n == call[c].game_data.players[call[c].index].user_name
           row == [player_id |-> call[c].player_id, player_name |-> n]
       IN IF \E p \in players : p.player_id = row.player_id \/ p.player_name = n
          THEN /\ Goes(c, "rollback")
               /\ UNCHANGED players
          ELSE /\ players' = players \cup {row}
               /\ call' = [call EXCEPT ![c] =
                              [@ EXCEPT !.pc = "insert_game_player",
                                        !.inserted = @ \cup {<<"players", row>>}]]
    /\ UNCHANGED <<pc, parserVars, prizeVars, games, game_players, transaction,
                   store_calls>>

\* INSERT INTO game_players; a taken (game_id, player_id) or a missing game
\* or player raises and leads to the ROLLBACK of the loop's handler
insert_game_player(c) ==
    /\ call[c].pc = "insert_game_player"
    /\ LET g == call[c].game_data
           row == GamePlayerRow(call[c].game_id, call[c].player_id, g.players[call[c].index])
       IN IF \/ \E r \in game_players :
                    r.game_id = row.game_id /\ r.player_id = row.player_id
             \/ ~IdExists(row.game_id)
             \/ ~\E p \in players : p.player_id = row.player_id
          THEN /\ Goes(c, "rollback")
               /\ UNCHANGED game_players
          ELSE /\ game_players' = game_players \cup {row}
               /\ call' = [call EXCEPT ![c] =
                              [@ EXCEPT !.pc = PlayerLoop(g, call[c].index + 1),
                                        !.index = @ + 1,
                                        !.inserted = @ \cup {<<"game_players", row>>}]]
    /\ UNCHANGED <<pc, parserVars, prizeVars, games, players, transaction, store_calls>>

\* COMMIT, after which store_game_data returns the game id; when it raises,
\* the outer handler comes next
commit(c) ==
    /\ call[c].pc = "commit"
    /\ IF transaction.active
       THEN /\ transaction' = NoTransaction
            /\ Returns(c, call[c].game_id)
       ELSE /\ Goes(c, "rollback_outer")
            /\ UNCHANGED transaction
    /\ UNCHANGED <<pc, parserVars, prizeVars, games, players, game_players, store_calls>>

\* the ROLLBACK of the handlers of the loop over the players, and return
\* None; when it raises, the outer handler comes next
rollback(c) ==
    /\ call[c].pc = "rollback"
    /\ IF transaction.active
       THEN /\ rolled_back
            /\ Returns(c, ReturnsNone)
       ELSE /\ Goes(c, "rollback_outer")
            /\ UNCHANGED tableVars
    /\ UNCHANGED <<pc, parserVars, prizeVars, store_calls>>

\* the ROLLBACK of the outer handler, and return None; when it raises, the
\* outermost handler returns None
rollback_outer(c) ==
    /\ call[c].pc = "rollback_outer"
    /\ IF transaction.active
       THEN rolled_back
       ELSE UNCHANGED tableVars
    /\ Returns(c, ReturnsNone)
    /\ UNCHANGED <<pc, parserVars, prizeVars, store_calls>>

\* the calls of store_game_data by the callers of the shared manager
NextStore ==
    \/ \E c \in Callers : store_game_data(c)
    \/ \E c \in Callers : game_exists(c)
    \/ \E c \in Callers : compare_players(c)
    \/ \E c \in Callers : check_game_id(c)
    \/ \E c \in Callers : begin_transaction(c)
    \/ \E c \in Callers : insert_game(c)
    \/ \E c \in Callers : select_player(c)
    \/ \E c \in Callers : next_player_id(c)
    \/ \E c \in Callers : insert_player(c)
    \/ \E c \in Callers : insert_game_player(c)
    \/ \E c \in Callers : commit(c)
    \/ \E c \in Callers : rollback(c)
    \/ \E c \in Callers : rollback_outer(c)

InitStore ==
    /\ ParserIdle
    /\ PrizeIdle
    /\ StoreIdle
    /\ pc = "store"

SpecStore == InitStore /\ [][NextStore]_vars

-----------------------------------------------------------------------------
(* Ranking.                                                                *)

\* the ranks of the players in self.player_stats
AssignedRanks == {player_stats[p].rank : p \in DOMAIN player_stats}

\* C1: after parse() on a log whose roster has N >= 1 players, the ranks of
\* the players are exactly 1..N: every player has one, no two players share
\* one, none is skipped; the players list returned carries the same ranks.
RanksArePermutation ==
    (pc = "done" /\ player_names # {}) =>
        LET N == Cardinality(player_names)
        IN /\ DOMAIN player_stats = player_names
           /\ AssignedRanks = 1..N
           /\ \A p, q \in player_names : p # q => player_stats[p].rank # player_stats[q].rank
           /\ Len(results.players) = N
           /\ \A i \in 1..N : results.players[i].rank = i

\* parse() has ranked three players, some with chips and some without
ThreeRankedPlayers ==
    /\ pc = "done"
    /\ Cardinality(player_names) = 3
    /\ \E p, q \in player_names :
          player_stats[p].total_chip = 0 /\ player_stats[q].total_chip > 0

\* C2: every player whose final chip count is 0 is among the eliminated
\* players and has a rank numerically greater than the rank of every player
\* whose final chip count is positive.
EliminatedRankBelowActive ==
    pc = "done" =>
        \A p \in player_names : player_stats[p].total_chip = 0 =>
            /\ p \in Range(EliminatedPlayers(iter_order, player_stats))
            /\ \A q \in player_names : player_stats[q].total_chip > 0 =>
                  player_stats[p].rank > player_stats[q].rank

\* parse() has ranked two eliminated players and an active one
EliminatedAndActive ==
    /\ pc = "done"
    /\ \E p, q, r \in player_names :
          /\ p # q
          /\ player_stats[p].total_chip = 0
          /\ player_stats[q].total_chip = 0
          /\ player_stats[r].total_chip > 0

\* what parse() returns when the roster iterates in the given order
ResultsUnder(order) ==
    Results(order, Ranked(order, player_stats), game_start_time, game_end_time, total_hands)

\* C5: a run on the same log returns the same record, the same rank for
\* every player and the same order of the players list, whatever order the
\* roster set iterates in.
SameResultsInEveryOrder ==
    pc = "done" => \A order \in Perms(player_names) : ResultsUnder(order) = results

-----------------------------------------------------------------------------
(* Prize allocation.                                                       *)

\* C3: for every player count N >= 1 and all rebuy counts, the prize amounts
\* of ranks 1..N sum to the total prize pool returned, exactly; a single
\* player receives the whole pool.
PrizesSumToPool ==
    (pc = "prize_done" /\ Len(players_df) >= 1) =>
        /\ DOMAIN prizes = 1..Len(players_df)
        /\ SumTo(prizes, Len(players_df)) = total_prize_pool
        /\ Len(players_df) = 1 => prizes[1] = total_prize_pool

\* a distribution in which truncation to hundreds took something from a rank
\* and a chargeable rebuy is in the pool
TruncationHappened ==
    /\ pc = "prize_done"
    /\ Len(players_df) >= 3
    /\ total_prize_pool > Len(players_df) * ENTRY_FEE
    /\ \E r \in 2..Len(players_df) : prizes[r] * 10000 # total_prize_pool * prize_percentages[r]

\* C4: for every N >= 1 the percentages returned sum to exactly 100.00: a
\* residual of any size, 0.01 included, has been added to rank 1.
PercentagesSumTo100 ==
    (pc = "prize_done" /\ Len(players_df) >= 1) =>
        SumTo(prize_percentages, Len(players_df)) = 10000

-----------------------------------------------------------------------------
(* The rebuy ledger.                                                       *)

\* the places of the player's buy-in events in the ordered log
BuyinEvents(n) ==
    {i \in DOMAIN sorted_game_data : Names1(sorted_game_data[i].entry, "join", n)}

\* the amount of the player's first buy-in event
FirstBuyin(n) ==
    sorted_game_data[CHOOSE i \in BuyinEvents(n) : \A j \in BuyinEvents(n) : i <= j].entry.amt

\* C6: for every player with a buy-in event, the rebuy count the ledger keeps
\* is the number of buy-in events minus one, and total_rebuy_amt is the
\* amount of the first buy-in event times (1 + rebuy_count).
TotalIsInitialTimesEvents ==
    pc = "done" =>
        \A n \in player_names : BuyinEvents(n) # {} =>
            /\ Ledger(sorted_game_data, n).rebuy_count = Cardinality(BuyinEvents(n)) - 1
            /\ player_stats[n].total_rebuy_amt =
                  FirstBuyin(n) * (1 + Ledger(sorted_game_data, n).rebuy_count)

\* every entry of the log that names the player is a buy-in of amount a
OnlyBuyinsOf(n, a) ==
    \A i \in DOMAIN sorted_game_data :
        Mentions(sorted_game_data[i].entry) # <<>> /\ Mentions(sorted_game_data[i].entry)[1].name = n
            => Names1(sorted_game_data[i].entry, "join", n) /\ sorted_game_data[i].entry.amt = a

\* C7: every buy-in event after the first counts as one rebuy, without upper
\* bound or correction: a player with k + 1 buy-in events of amount A, and
\* nothing else, gets rebuy_count k and total_rebuy_amt A * (k + 1).
EveryLaterBuyinIsARebuy ==
    pc = "done" =>
        \A n \in player_names : \A a \in {20000, 40000} :
            (BuyinEvents(n) # {} /\ OnlyBuyinsOf(n, a)) =>
                /\ Ledger(sorted_game_data, n).rebuy_count = Cardinality(BuyinEvents(n)) - 1
                /\ player_stats[n].total_rebuy_amt = a * Cardinality(BuyinEvents(n))

\* C8: a player of the roster without any buy-in event gets rebuy_count 0 and
\* total_rebuy_amt 20000, the default initial buy-in, and parse() does not
\* fail on that player.
NoBuyinGetsDefault ==
    /\ pc = "done" =>
        \A n \in player_names : BuyinEvents(n) = {} =>
            /\ Ledger(sorted_game_data, n).rebuy_count = 0
            /\ player_stats[n].total_rebuy_amt = 20000
    /\ pc = "failed" => \E n \in player_names : BuyinEvents(n) # {}

-----------------------------------------------------------------------------
(* The order of the log.                                                   *)

\* the key an entry is sorted by
SortKey(g) == GetDatetime(g, DatetimeMin)

\* C9: the ordered sequence ascends by parsed timestamp, and entries with
\* equal timestamps stand in ascending order of their `order` index, wherever
\* they stood in the file.
SortedByTimeThenOrder ==
    pc \notin {"read", "sort"} =>
        \A i, j \in DOMAIN sorted_game_data : i < j =>
            \/ SortKey(sorted_game_data[i]) < SortKey(sorted_game_data[j])
            \/ /\ SortKey(sorted_game_data[i]) = SortKey(sorted_game_data[j])
               /\ sorted_game_data[i].order < sorted_game_data[j].order

\* C10: an entry whose timestamp string fromisoformat rejects gets the
\* minimum timestamp, stands before every entry with a valid timestamp in
\* the ordered sequence, and parse() does not fail.
BadTimestampSortsFirst ==
    /\ pc # "failed"
    /\ pc \notin {"read", "sort"} =>
        \A i \in DOMAIN sorted_game_data : sorted_game_data[i].timestamp.fmt = "bad" =>
            /\ "datetime" \in DOMAIN sorted_game_data[i]
            /\ sorted_game_data[i].datetime = DatetimeMin
            /\ \A j \in DOMAIN sorted_game_data :
                  sorted_game_data[j].timestamp.fmt \in {"iso", "iso_offset"} => i < j

\* C11: the pool returned is N x ENTRY_FEE plus, over all players,
\* max(0, rebuy_count - FREE_REBUYS) x REBUY_FEE; rebuys up to FREE_REBUYS
\* add nothing.
PoolIsFeesPlusChargeableRebuys ==
    pc = "prize_done" =>
        LET N == Len(players_df)
            chargeable == [i \in 1..N |->
                              IF players_df[i].rebuy_count - FREE_REBUYS > 0
                              THEN players_df[i].rebuy_count - FREE_REBUYS ELSE 0]
        IN /\ total_prize_pool = N * ENTRY_FEE + SumTo(chargeable, N) * REBUY_FEE
           /\ (\A i \in 1..N : players_df[i].rebuy_count <= FREE_REBUYS) =>
                 total_prize_pool = N * ENTRY_FEE

\* the pool of a table where one player rebought beyond the free rebuys and
\* another used free rebuys only
ChargeableAndFreeRebuys ==
    /\ pc = "prize_done"
    /\ \E i, j \in DOMAIN players_df :
          /\ players_df[i].rebuy_count > FREE_REBUYS
          /\ players_df[j].rebuy_count \in 1..FREE_REBUYS

\* C12: for every N >= 2 the percentages strictly decrease with the rank and
\* the last rank gets 0% and the amount 0; with N = 2, rank 1 gets 100% and
\* the whole pool and rank 2 gets 0.
PercentagesStrictlyDecrease ==
    (pc = "prize_done" /\ Len(players_df) >= 2) =>
        LET N == Len(players_df)
        IN /\ \A r \in 1..(N - 1) : prize_percentages[r] > prize_percentages[r + 1]
           /\ prize_percentages[N] = 0
           /\ prizes[N] = 0
           /\ N = 2 => /\ prize_percentages[1] = 10000
                       /\ prizes[1] = total_prize_pool
                       /\ prizes[2] = 0

-----------------------------------------------------------------------------
(* Failures.                                                               *)

\* C13: when no player is extracted from the log, parse() does not return a
\* statistics record, and calculate_prize_distribution does not return a
\* distribution for a frame without players.
EmptyRosterIsAFailure ==
    /\ pc = "done" => player_names # {}
    /\ pc = "prize_done" => Len(players_df) # 0

\* C14: when rows of the file lack one of the three columns, parse() does
\* not return a record: no record is built from the well-formed rows alone.
ShortRowsFailTheParse ==
    pc = "done" => \A i \in DOMAIN file : file[i].cols >= 3

-----------------------------------------------------------------------------
(* The rebuy ledger and the stack snapshots.                               *)

\* C15: a stack increase seen only in stack broadcasts or stand/sit lines is
\* never read as a rebuy: a player's rebuy count and total_rebuy_amt are
\* those of the log reduced to that player's buy-in events.
RebuysDependOnBuyinsOnly ==
    pc = "done" =>
        \A n \in player_names :
            LET IsBuyin(g) == Names1(g.entry, "join", n)
                buyins == SelectSeq(sorted_game_data, IsBuyin)
            IN /\ Ledger(sorted_game_data, n).rebuy_count = Ledger(buyins, n).rebuy_count
               /\ player_stats[n].total_rebuy_amt = RebuyAmount(buyins, n)

-----------------------------------------------------------------------------
(* The order of the ranks.                                                 *)

\* the players with chips at the end, and those without
ActiveSet == {p \in player_names : player_stats[p].total_chip > 0}
EliminatedSet == {p \in player_names : player_stats[p].total_chip = 0}

\* C16: the active players have the ranks 1..k, k their number, by income
\* descending: an active player with strictly greater income than another
\* has the numerically smaller rank.
ActiveRankedByIncome ==
    pc = "done" =>
        /\ {player_stats[p].rank : p \in ActiveSet} = 1..Cardinality(ActiveSet)
        /\ \A p, q \in ActiveSet :
              player_stats[p].total_income > player_stats[q].total_income =>
                  player_stats[p].rank < player_stats[q].rank

\* two active players of different income, the poorer one first in the
\* roster's iteration, and an eliminated player
ActiveOfDifferentIncome ==
    /\ pc = "done"
    /\ EliminatedSet # {}
    /\ \E i, j \in DOMAIN iter_order :
          /\ i < j
          /\ {iter_order[i], iter_order[j]} \subseteq ActiveSet
          /\ player_stats[iter_order[i]].total_income < player_stats[iter_order[j]].total_income

FirstOutFinishesLast ==
    pc = "done" =>
        \A p, q \in EliminatedSet :
            (/\ player_stats[p].out_time # None
             /\ player_stats[q].out_time # None
             /\ player_stats[p].out_time < player_stats[q].out_time)
                => player_stats[p].rank > player_stats[q].rank

-----------------------------------------------------------------------------
(* The amounts of the ranks.                                               *)

\* C19: for every rank r in 2..N the amount is pool x percentage(r) / 100
\* truncated down to a multiple of 100: a multiple of 100, at most the exact
\* share and greater than the exact share minus 100.
PrizesTruncatedToHundreds ==
    (pc = "prize_done" /\ Len(players_df) >= 2) =>
        \A r \in 2..Len(players_df) :
            /\ prizes[r] % 100 = 0
            /\ prizes[r] * 10000 <= total_prize_pool * prize_percentages[r]
            /\ prizes[r] * 10000 > total_prize_pool * prize_percentages[r] - 100 * 10000

-----------------------------------------------------------------------------
(* The hand counter.                                                       *)

\* the hand numbers of the hand-start markers among the first k entries
MarkerNumbers(k) ==
    {sorted_game_data[i].entry.number :
        i \in {j \in 1..k : sorted_game_data[j].entry.kind = "hand_start"}}

\* the largest of a set of hand numbers, 0 for the empty set
LargestOf(S) == IF S = {} THEN 0 ELSE CHOOSE m \in S : \A x \in S : x <= m

\* C20: while the hand tracker scans the ordered log the total-hands counter
\* never decreases; it is the largest hand number of the markers seen so far,
\* and at the end the largest of all markers (0 without markers), also when
\* a marker carries a number lower than one seen before.
TotalHandsIsRunningMaximum ==
    /\ [][total_hands' >= total_hands]_vars
    /\ [](pc = "hands" => total_hands = LargestOf(MarkerNumbers(hand_index)))
    /\ [](pc \in {"stats", "format", "done"} =>
            total_hands = LargestOf(MarkerNumbers(Len(sorted_game_data))))

\* the scan has just handled a marker whose number is lower than the counter
LowerMarkerAfterHigher ==
    /\ pc = "hands"
    /\ hand_index >= 2
    /\ sorted_game_data[hand_index].entry.kind = "hand_start"
    /\ sorted_game_data[hand_index].entry.number < total_hands

-----------------------------------------------------------------------------
(* Chronological order: by parsed timestamp, then by the `order` index.    *)

\* the entry at place j of the sorted log is at or before the entry at place
\* i in chronological order
AtOrBefore(j, i) ==
    \/ SortKey(sorted_game_data[j]) < SortKey(sorted_game_data[i])
    \/ /\ SortKey(sorted_game_data[j]) = SortKey(sorted_game_data[i])
       /\ sorted_game_data[j].order <= sorted_game_data[i].order

\* the chronologically last of a set of places of the sorted log (0: none)
ChronLast(S) == IF S = {} THEN 0 ELSE CHOOSE i \in S : \A j \in S : AtOrBefore(j, i)

-----------------------------------------------------------------------------
(* The hands and their participants.                                       *)

\* the places of the hand-start markers in the sorted log
MarkerRows == {j \in DOMAIN sorted_game_data : sorted_game_data[j].entry.kind = "hand_start"}

\* the place of the latest hand-start marker at or before the entry at place
\* i in chronological order (0: the entry precedes every marker)
LatestMarker(i) == ChronLast({j \in MarkerRows : AtOrBefore(j, i)})

\* the known players whose identity pattern matches the entry at place i
MatchedPlayers(i) ==
    {n \in DOMAIN player_ids :
        MatchesNameAndId(sorted_game_data[i].entry, n, player_ids[n])}

\* C21: every entry that matches a known player's identity pattern adds the
\* player to the participants of exactly one hand, the hand opened by the
\* latest hand-start marker at or before the entry in chronological order;
\* an entry before the first marker is attributed to no hand, and a hand
\* receives no participant once the next marker has appeared.
EntryJoinsLatestHandOnly ==
    [][(pc = "hands" /\ hand_index' = hand_index + 1) =>
        LET i == hand_index'
            m == LatestMarker(i)
        IN IF m = 0
           THEN hand_data' = hand_data
           ELSE LET hid == sorted_game_data[m].entry.hid
                IN /\ hid \in DOMAIN hand_data'
                   /\ MatchedPlayers(i) \subseteq hand_data'[hid].players_involved
                   /\ \A h \in DOMAIN hand_data' \ {hid} :
                        /\ h \in DOMAIN hand_data
                        /\ hand_data'[h].players_involved = hand_data[h].players_involved]_vars

-----------------------------------------------------------------------------
(* The elimination time and the final chips.                               *)

\* the places of the stack broadcasts that list player n, in the sorted log
SnapshotRows(n) ==
    {i \in DOMAIN sorted_game_data :
        /\ sorted_game_data[i].entry.kind = "stacks"
        /\ \E k \in DOMAIN sorted_game_data[i].entry.list :
                sorted_game_data[i].entry.list[k].name = n}

\* the amount of the last listing of player n in the broadcast at place i
LastAmountIn(i, n) ==
    LET l == sorted_game_data[i].entry.list
        at == {k \in DOMAIN l : l[k].name = n}
    IN l[LargestOf(at)].amt

\* the places of the entries that match the identity pattern of player n
MatchingRows(n) ==
    {i \in DOMAIN sorted_game_data :
        MatchesNameAndId(sorted_game_data[i].entry, n, player_ids[n])}

\* the player's chronologically last snapshot shows an empty stack
LastSnapshotIsZero(n) ==
    /\ SnapshotRows(n) # {}
    /\ LastAmountIn(ChronLast(SnapshotRows(n)), n) = 0

\* the place of the entry that decides the elimination time of player n: the
\* last snapshot if it shows an empty stack, else the last matching entry
\* (0: there is none)
DecidingRow(n) ==
    IF LastSnapshotIsZero(n) THEN ChronLast(SnapshotRows(n)) ELSE ChronLast(MatchingRows(n))

\* C22: the elimination time is the timestamp of the player's last snapshot
\* when its amount is 0, else the timestamp of the chronologically last entry
\* that matches the player's pattern, and it is undetermined only if no entry
\* matches.
OutTimeIsLastZeroSnapshotOrLastEntry ==
    pc = "done" =>
        \A n \in player_names :
            /\ DecidingRow(n) # 0 =>
                 player_stats[n].out_time = GetDatetime(sorted_game_data[DecidingRow(n)], None)
            /\ player_stats[n].out_time = None => MatchingRows(n) = {}


\* C23: a player's final chips are the amount of the chronologically last
\* snapshot that lists the player, 0 when no snapshot lists the player, and
\* the snapshots are appended to the player's history in chronological order.
FinalChipsAreLastSnapshot ==
    pc = "done" =>
        \A n \in player_names :
            /\ player_stats[n].total_chip =
                 IF SnapshotRows(n) = {} THEN 0
                 ELSE LastAmountIn(ChronLast(SnapshotRows(n)), n)
            /\ \A i, j \in SnapshotRows(n) : i < j => AtOrBefore(i, j)

-----------------------------------------------------------------------------
(* The display name as the identity.                                       *)

\* the places of the entries that name player n, under any token
NamingRows(n) ==
    {i \in DOMAIN sorted_game_data :
        \E k \in DOMAIN Mentions(sorted_game_data[i].entry) :
            Mentions(sorted_game_data[i].entry)[k].name = n}

\* the token of the first mention of player n in the entry at place i
TokenIn(i, n) ==
    LET ms == Mentions(sorted_game_data[i].entry)
    IN ms[CHOOSE k \in DOMAIN ms : ms[k].name = n /\ \A j \in DOMAIN ms : ms[j].name = n => k <= j].id

\* the place of the marker that opened the hand record h
Opened(h) == ChronLast({j \in MarkerRows : sorted_game_data[j].entry.hid = h})

\* the places of the entries that belong to the hand record h
RowsOfHand(h) == {i \in DOMAIN sorted_game_data : LatestMarker(i) = Opened(h)}

\* C24: a player whose entries appear under two session tokens yields one
\* roster entry and one statistics record, the name-to-token map keeps the
\* token of the chronologically first occurrence, and the hands and wins
\* logged under the later token count toward the player's totals.
NameIsTheIdentity ==
    pc = "done" =>
        \A n \in Names : NamingRows(n) # {} =>
            /\ n \in player_names
            /\ n \in DOMAIN player_stats
            /\ Cardinality({i \in DOMAIN results.players : results.players[i].user_name = n}) = 1
            /\ player_ids[n] =
                 TokenIn(CHOOSE i \in NamingRows(n) : \A j \in NamingRows(n) : AtOrBefore(i, j), n)
            /\ player_stats[n].total_hand_cnt =
                 Cardinality({h \in DOMAIN hand_data : RowsOfHand(h) \cap NamingRows(n) # {}})
            /\ player_stats[n].total_win_cnt =
                 Cardinality({h \in DOMAIN hand_data :
                    \E i \in RowsOfHand(h) \cap NamingRows(n) :
                        sorted_game_data[i].entry.kind = "collected"})


\* C25: in every hand record at every point of the scan the winners are
\* among the participants, and a player counts once a hand: for every player
\* total_win_cnt <= total_hand_cnt <= the number of hand ids recorded.
WinnersAreParticipants ==
    /\ \A h \in DOMAIN hand_data : hand_data[h].winners \subseteq hand_data[h].players_involved
    /\ pc = "done" =>
        \A n \in player_names :
            /\ player_stats[n].total_win_cnt =
                 Cardinality({h \in DOMAIN hand_data : n \in hand_data[h].winners})
            /\ player_stats[n].total_hand_cnt =
                 Cardinality({h \in DOMAIN hand_data : n \in hand_data[h].players_involved})
            /\ player_stats[n].total_win_cnt <= player_stats[n].total_hand_cnt
            /\ player_stats[n].total_hand_cnt <= Cardinality(DOMAIN hand_data)

\* a player has won one of two recorded hands and played in no other
WonOneHandOfTwo ==
    /\ pc = "done"
    /\ Cardinality(DOMAIN hand_data) = 2
    /\ \E n \in player_names :
            /\ player_stats[n].total_win_cnt = 1
            /\ player_stats[n].total_hand_cnt = 1

-----------------------------------------------------------------------------
(* The order of the prizes.                                                *)

\* C26: for two players or more the prize amounts are non-negative and do
\* not increase with the rank: amount(r) >= amount(r + 1) for r in 1..N-1, so
\* first place, which gets the remainder, never gets less than second place.
PrizesNeverIncreaseWithRank ==
    (pc = "prize_done" /\ Len(players_df) >= 2) =>
        /\ \A r \in 1..Len(players_df) : prizes[r] >= 0
        /\ \A r \in 1..(Len(players_df) - 1) : prizes[r] >= prizes[r + 1]

-----------------------------------------------------------------------------
(* The joins of a player who is away.                                      *)

\* the places of the 'joined the game' entries of player n in the sorted log
JoinRows(n) ==
    {k \in DOMAIN sorted_game_data : Names1(sorted_game_data[k].entry, "join", n)}

\* the ledger's local variables before and after the entry at place k
LedgerBefore(n, k) == LedgerScan(sorted_game_data, n, k - 1)
LedgerAfter(n, k) == LedgerScan(sorted_game_data, n, k)

\* before the entry at place k player n is marked away: a 'stands up' entry
\* with no later join or sit-back
MarkedAway(n, k) ==
    \E j \in 1..(k - 1) :
        /\ Names1(sorted_game_data[j].entry, "stands_up", n)
        /\ \A i \in (j + 1)..(k - 1) :
            /\ ~Names1(sorted_game_data[i].entry, "join", n)
            /\ ~Names1(sorted_game_data[i].entry, "sits_back", n)

\* C29: in the ledger's scan a join of a player marked away is not
\* counted as a rebuy, adds nothing to the total and clears the away mark;
\* every join after the first of a player who is not away adds one to the
\* rebuy count and its amount to the total.
JoinWhileAwayIsNoRebuy ==
    pc \notin {"read", "sort"} =>
        \A n \in Names : \A k \in JoinRows(n) :
            LET b == LedgerBefore(n, k)
                a == LedgerAfter(n, k)
            IN IF MarkedAway(n, k)
               THEN /\ a.rebuy_count = b.rebuy_count
                    /\ a.total_rebuy = b.total_rebuy
                    /\ ~a.away_status
               ELSE (\E f \in JoinRows(n) : f < k) =>
                    /\ a.rebuy_count = b.rebuy_count + 1
                    /\ a.total_rebuy = b.total_rebuy + sorted_game_data[k].entry.amt

-----------------------------------------------------------------------------
(* The rebuy count the views derive from the stored total.                 *)

\* display_results: (total_rebuy_amt / INITIAL_BUYIN - 1), rounded to the
\* nearest integer (a half to the even neighbour) and raised to 0
DisplayedRebuyCount(total_rebuy_amt) ==
    LET x == RoundDiv(total_rebuy_amt - INITIAL_BUYIN, INITIAL_BUYIN)
    IN IF x > 0 THEN x ELSE 0

\* get_player_results: (total_rebuy_amt / 20000) - 1 is a whole number
HistoryCountIsWhole(total_rebuy_amt) == total_rebuy_amt % 20000 = 0

\* get_player_results: (total_rebuy_amt / 20000) - 1 when it is whole
HistoryRebuyCount(total_rebuy_amt) == total_rebuy_amt \div 20000 - 1

\* C30: the rebuy count that the upload view and the history view derive
\* from a player's total_rebuy_amt is a non-negative integer, the number of
\* rebuys the parser counted for that player, so that the additional fee
\* computed from it is the fee of the parsed game.
DerivedRebuyCountIsParsedCount ==
    pc = "done" =>
        \A n \in player_names :
            LET total == player_stats[n].total_rebuy_amt
                counted == Ledger(sorted_game_data, n).rebuy_count
            IN /\ DisplayedRebuyCount(total) = counted
               /\ HistoryCountIsWhole(total)
               /\ HistoryRebuyCount(total) >= 0
               /\ HistoryRebuyCount(total) = counted
               /\ AdditionalFee(DisplayedRebuyCount(total)) = AdditionalFee(counted)

-----------------------------------------------------------------------------
(* Duplicate games.                                                        *)

\* the names of the players of a stored game
PlayersOfGame(game_id) ==
    {p.player_name : p \in {q \in players :
        \E r \in game_players : r.game_id = game_id /\ r.player_id = q.player_id}}

\* two dictionaries are the same game: same start time, same set of names
SameGame(g, h) ==
    /\ g.game_period.start = h.game_period.start
    /\ Range(PlayerNamesOf(g)) = Range(PlayerNamesOf(h))

\* the call of caller c has returned a game id
Succeeded(c) == call[c].pc = "returned" /\ call[c].result # ReturnsNone

\* C27: under every interleaving of the callers' store_game_data calls the
\* committed games table holds no two games with the same start time and
\* the same set of player names, and no two callers have both got a game id
\* for the same game.
NoGameIsStoredTwice ==
    /\ ~transaction.active =>
          \A g1, g2 \in games :
              (/\ g1.start_time = g2.start_time
               /\ PlayersOfGame(g1.game_id) = PlayersOfGame(g2.game_id)) => g1 = g2
    /\ \A c, d \in Callers :
          (c # d /\ Succeeded(c) /\ Succeeded(d)) =>
              ~SameGame(call[c].game_data, call[d].game_data)

-----------------------------------------------------------------------------
(* All or nothing.                                                         *)

\* the rows the call of caller c has inserted into a table
RowsOf(c, table) == {x[2] : x \in {y \in call[c].inserted : y[1] = table}}

\* the step ends the call of caller c
CallEnds(c) == call[c].pc # "returned" /\ call'[c].pc = "returned"

\* C28: store_game_data is all or nothing.  A call that fails on a
\* player's row (a required field is missing or an insert raises) returns
\* None with the transaction rolled back: no games row, no game_players row
\* and no players row that the call inserted is left.  A call that returns
\* a game id leaves the transaction committed, the games row of that id and
\* one game_players row for every player of the dictionary.
StoreIsAllOrNothing ==
    [][\A c \in Callers :
        CallEnds(c) =>
            /\ call[c].pc \in {"rollback", "rollback_outer"} =>
                /\ call'[c].result = ReturnsNone
                /\ ~transaction'.active
                /\ RowsOf(c, "games") \cap games' = {}
                /\ RowsOf(c, "players") \cap players' = {}
                /\ RowsOf(c, "game_players") \cap game_players' = {}
            /\ call'[c].result # ReturnsNone =>
                /\ ~transaction'.active
                /\ GameRow(call'[c].result, call[c].game_data) \in games'
                /\ \A i \in DOMAIN call[c].game_data.players :
                    \E r \in game_players' : \E p \in players' :
                        /\ r.game_id = call'[c].result
                        /\ r.player_id = p.player_id
                        /\ p.player_name = call[c].game_data.players[i].user_name
                        /\ r = GamePlayerRow(r.game_id, r.player_id,
                                             call[c].game_data.players[i])]_vars

\* a call has returned None after it had inserted a games row, a players
\* row and a game_players row, and another call has returned a game id
RolledBackAndStored ==
    \E c, d \in Callers :
        /\ call[c].pc = "returned"
        /\ call[c].result = ReturnsNone
        /\ RowsOf(c, "games") # {}
        /\ RowsOf(c, "players") # {}
        /\ RowsOf(c, "game_players") # {}
        /\ RowsOf(c, "games") \cap games = {}
        /\ Succeeded(d)
        /\ RowsOf(d, "game_players") \subseteq game_players

====
